---- MODULE Spec2Model ----
(***************************************************************************)
(* Model of src/compass/utils/correct_cslc_amplitude.py: the script that   *)
(* extracts the amplitude of a CSLC product, subtracts the thermal noise   *)
(* and/or multiplies the radiometric normalization, and saves the result   *)
(* as a GeoTIFF (main, lines 106-146; save_amplitude, lines 23-56).        *)
(*                                                                         *)
(* Pixel values are integers.  The inputs are drawn so that every power    *)
(* value handed to np.sqrt is a perfect square, so that the integer Sqrt   *)
(* below is exactly what np.sqrt returns on those inputs.                  *)
(*                                                                         *)
(* numpy arrays are objects: heap[k] is the content of the k-th array      *)
(* object allocated, and the python names cslc_amplitude_arr,              *)
(* noise_correction_arr and radiometric_normalization_arr hold indexes     *)
(* into heap (0 = unbound).  An operator that returns a new array appends  *)
(* to heap; an in-place operator rewrites heap[k].  Objects are never      *)
(* removed (no garbage collection is modelled).                            *)
(***************************************************************************)
EXTENDS Integers, Sequences, FiniteSets

\* ------------------------------------------------------------------ bounds
\* Largest amplitude sample the amplitude reader returns.
MaxAmp == 2
\* Largest radiometric gain the radiometric reader returns.
MaxGain == 2

AmpVals == 0..MaxAmp
NoiseVals == (-1)..(MaxAmp * MaxAmp + 1)
GainVals == (-1)..MaxGain

\* Shapes (rows, cols) of the rasters the readers return.
Shapes == {<<1, 1>>, <<1, 2>>, <<2, 1>>}

\* ------------------------------------------------------------ numpy arrays
\* A 2-D array is a sequence of rows, each a sequence of samples.
Shape(g) == <<Len(g), Len(g[1])>>

Grids(shape, vals) == [1..shape[1] -> [1..shape[2] -> vals]]

Cells(g) == (1..Len(g)) \X (1..Len(g[1]))

\* numpy broadcasting of a 2-D operand: an axis of length 1 is repeated.
Bget(g, i, j) ==
    g[IF Len(g) = 1 THEN 1 ELSE i][IF Len(g[1]) = 1 THEN 1 ELSE j]

\* The shape numpy broadcasts two 2-D shapes to.
BroadcastShape(s, t) ==
    <<IF s[1] >= t[1] THEN s[1] ELSE t[1], IF s[2] >= t[2] THEN s[2] ELSE t[2]>>

\* Two 2-D shapes are broadcastable when each axis agrees or one of them is 1.
Broadcastable(s, t) ==
    /\ (s[1] = t[1] \/ s[1] = 1 \/ t[1] = 1)
    /\ (s[2] = t[2] \/ s[2] = 1 \/ t[2] = 1)

\* An in-place operator needs the broadcast result to fit the left operand.
InPlaceOk(s, t) == Broadcastable(s, t) /\ BroadcastShape(s, t) = s

Max(a, b) == IF a >= b THEN a ELSE b

IsSquare(x) == \E r \in 0..x : r * r = x

\* np.sqrt on one sample (the floor root; exact on the perfect squares the
\* inputs are restricted to).
Sqrt(x) == CHOOSE r \in 0..x : r * r <= x /\ (r + 1) * (r + 1) > x

\* Variant of SubtractNoise: the noise is taken from the amplitude itself,
\* without the conversion to power.
SubtractNoiseNoSquare(a, n) ==
    [i \in 1..Len(a) |-> [j \in 1..Len(a[1]) |-> a[i][j] - Bget(n, i, j)]]

\* line 131-132: cslc_amplitude_arr ** 2 - noise_correction_arr (a new array)
SubtractNoise(a, n) ==
    [i \in 1..Len(a) |-> [j \in 1..Len(a[1]) |->
        a[i][j] * a[i][j] - Bget(n, i, j)]]

\* line 133: cslc_amplitude_arr[cslc_amplitude_arr < 0.0] = 0.0 (in place)
Clamp(p) ==
    [i \in 1..Len(p) |-> [j \in 1..Len(p[1]) |->
        IF p[i][j] < 0 THEN 0 ELSE p[i][j]]]

\* line 134: np.sqrt(cslc_amplitude_arr) (a new array)
SqrtGrid(p) ==
    [i \in 1..Len(p) |-> [j \in 1..Len(p[1]) |-> Sqrt(p[i][j])]]

\* Variant of Multiply: the augmented assignment is -= instead of *=.
MultiplyAsSubtract(a, r) ==
    [i \in 1..Len(a) |-> [j \in 1..Len(a[1]) |-> a[i][j] - Bget(r, i, j)]]

\* line 141: cslc_amplitude_arr *= radiometric_normalization_arr (in place)
Multiply(a, r) ==
    [i \in 1..Len(a) |-> [j \in 1..Len(a[1]) |-> a[i][j] * Bget(r, i, j)]]

\* ------------------------------------------------------------ python values
\* A python value carries its type; val is always a tuple.
None == [type |-> "NoneType", val |-> <<>>]
PyInt(n) == [type |-> "int", val |-> <<n>>]
PySeq(t) == [type |-> "sequence", val |-> t]

\* ------------------------------------------------- the external collaborators
\* The CSLC products a run can be pointed at: the affine geotransform of the
\* polarization dataset and the EPSG code of its coordinate system.
Products ==
    {[gt |-> <<0, 1, 0, 0, 0, -1>>, epsg |-> 4326],
     [gt |-> <<500000, 10, 0, 4000000, 0, -10>>, epsg |-> 32611]}

\* h5_helpers.get_dataset_geotransform: returns the geotransform of the
\* dataset, the six coefficients and nothing else.
get_dataset_geotransform(product) == PySeq(product.gt)

\* h5_helpers.get_cslc_amplitude: the rasters it can return.
AmplitudeGrids == UNION {Grids(s, AmpVals) : s \in Shapes}

\* h5_helpers.get_resampled_noise_correction(static, shape, geotransform):
\* the noise rasters it can return for the power of the current amplitude a;
\* it resamples onto the shape it is given.
NoiseGrids(a) ==
    {n \in Grids(Shape(a), NoiseVals) :
        \A c \in Cells(a) :
            IsSquare(Max(a[c[1]][c[2]] * a[c[1]][c[2]] - n[c[1]][c[2]], 0))}

\* h5_helpers.get_radiometric_normalization_correction(static): the rasters
\* it can return; their shape is that of the static layer file.
RadiometricGrids == UNION {Grids(s, GainVals) : s \in Shapes}

\* osr: the codes SpatialReference.ImportFromEPSG resolves.
KnownEpsg == {4326, 32611}

\* osr: SpatialReference.ExportToWkt of a resolved code, and of an empty
\* SpatialReference.
Wkt(code) == <<code>>
EmptyWkt == <<>>

\* gdal: the geotransform of a dataset on which SetGeoTransform was not called.
DefaultGeotransform == <<0, 1, 0, 0, 0, 1>>

\* ------------------------------------------------------------------- state
VARIABLES
    pc,                 \* position in main / save_amplitude
    caller,             \* who entered save_amplitude: "main" or "direct"
    apply_noise,        \* args.apply_noise_correction
    apply_rad,          \* args.apply_radiometric_normalization
    product,            \* the CSLC product at args.cslc_path
    heap,               \* the numpy array objects allocated so far
    arr,                \* cslc_amplitude_arr
    noise_arr,          \* noise_correction_arr
    rad_arr,            \* radiometric_normalization_arr
    inputs,             \* what each reader returned, as returned
    cslc_geotransform,  \* main's cslc_geotransform
    epsg_cslc,          \* main's epsg_cslc
    saveArgs,           \* arguments of the running save_amplitude call
    projection_out,     \* save_amplitude's projection_out
    importFailed,       \* ImportFromEPSG did not resolve its argument
    file,               \* the raster at amplitude_filename
    ds_out,             \* save_amplitude's ds_out: "unbound", "None" or "dataset"
    osgeo_exceptions,   \* whether the installed osgeo raises python exceptions
    calls,              \* calls made so far, in order
    done,               \* steps of main completed successfully
    err                 \* the exception that ended the run

vars == <<pc, caller, apply_noise, apply_rad, product, heap, arr, noise_arr,
          rad_arr, inputs, cslc_geotransform, epsg_cslc, saveArgs,
          projection_out, importFailed, file, ds_out, osgeo_exceptions,
          calls, done, err>>

mainVars == <<apply_noise, apply_rad, product, heap, arr, noise_arr, rad_arr,
              inputs, cslc_geotransform, epsg_cslc>>

saveVars == <<saveArgs, projection_out, importFailed, file, ds_out,
              osgeo_exceptions>>

NoGrid == <<>>
NoFile == [exists |-> FALSE, shape |-> <<0, 0>>, geotransform |-> <<>>,
           projection |-> <<>>, band |-> NoGrid, closed |-> FALSE]
NoArgs == [grid |-> NoGrid, gt |-> None, epsg |-> None]

Init ==
    /\ pc = "idle"
    /\ caller = "none"
    /\ apply_noise = TRUE
    /\ apply_rad = TRUE
    /\ product \in Products
    /\ heap = <<>>
    /\ arr = 0
    /\ noise_arr = 0
    /\ rad_arr = 0
    /\ inputs = [amplitude |-> NoGrid, noise |-> NoGrid, radiometric |-> NoGrid]
    /\ cslc_geotransform = None
    /\ epsg_cslc = None
    /\ saveArgs = NoArgs
    /\ projection_out = EmptyWkt
    /\ importFailed = FALSE
    /\ file = NoFile
    /\ ds_out = "unbound"
    /\ osgeo_exceptions \in BOOLEAN
    /\ calls = <<>>
    /\ done = {}
    /\ err = "none"

\* ------------------------------------------------------------ control flow
\* Variant of EarlyReturn: the second "not" is missing.
EarlyReturnOneNot(nz, rd) == ~nz /\ rd

\* line 113-115: the early return of main.
EarlyReturn(nz, rd) == ~nz /\ ~rd

\* Variant of PcAfter: the radiometric block comes before the noise block.
PcAfterReversed(p, nz, rd) ==
    CASE p = "get_gt" ->
            IF rd THEN "get_rad" ELSE IF nz THEN "get_noise" ELSE "get_epsg"
      [] p = "multiply" -> IF nz THEN "get_noise" ELSE "get_epsg"
      [] p = "sqrt" -> "get_epsg"

\* lines 123-143: the statement main runs after the one at p, given the flags.
PcAfter(p, nz, rd) ==
    CASE p = "get_gt" ->
            IF nz THEN "get_noise" ELSE IF rd THEN "get_rad" ELSE "get_epsg"
      [] p = "sqrt" -> IF rd THEN "get_rad" ELSE "get_epsg"
      [] p = "multiply" -> "get_epsg"

\* Variant of OnDataAccessError: a failure to read a correction is swallowed
\* and the run goes on to save the amplitude it has.
OnDataAccessErrorSwallowed(p) ==
    IF p \in {"get_noise", "get_rad"} THEN "get_epsg" ELSE "failed"

\* An exception raised by the collaborator called at p is not caught: the
\* run ends there.
OnDataAccessError(p) == "failed"

\* An uncaught exception ends the run.
Raise(e) ==
    /\ pc' = "failed"
    /\ err' = e

\* -------------------------------------------------------------------- main
\* lines 110-115: parse the command line; return at once when both
\* corrections are switched off.
ParseArgs ==
    /\ pc = "idle"
    /\ \E nz \in BOOLEAN, rd \in BOOLEAN :
        /\ apply_noise' = nz
        /\ apply_rad' = rd
        /\ pc' = IF EarlyReturn(nz, rd) THEN "done" ELSE "get_amp"
    /\ caller' = "main"
    /\ UNCHANGED <<product, heap, arr, noise_arr, rad_arr, inputs,
                   cslc_geotransform, epsg_cslc, calls, done, err>>
    /\ UNCHANGED saveVars

\* line 117: cslc_amplitude_arr = get_cslc_amplitude(args.cslc_path, args.pol)
GetCslcAmplitude ==
    /\ pc = "get_amp"
    /\ calls' = Append(calls, "get_cslc_amplitude")
    /\ \/ \E a \in AmplitudeGrids :
            /\ heap' = Append(heap, a)
            /\ arr' = Len(heap) + 1
            /\ inputs' = [inputs EXCEPT !.amplitude = a]
            /\ done' = done \cup {"amplitude"}
            /\ pc' = "get_gt"
            /\ UNCHANGED err
       \/ /\ pc' = OnDataAccessError("get_amp")
          /\ err' = "DataAccessError"
          /\ UNCHANGED <<heap, arr, inputs, done>>
    /\ UNCHANGED <<caller, apply_noise, apply_rad, product, noise_arr, rad_arr,
                   cslc_geotransform, epsg_cslc>>
    /\ UNCHANGED saveVars

\* lines 119-121: cslc_geotransform = get_dataset_geotransform(...)
GetGeotransform ==
    /\ pc = "get_gt"
    /\ calls' = Append(calls, "get_dataset_geotransform")
    /\ \/ /\ cslc_geotransform' = get_dataset_geotransform(product)
          /\ done' = done \cup {"geotransform"}
          /\ pc' = PcAfter("get_gt", apply_noise, apply_rad)
          /\ UNCHANGED err
       \/ /\ pc' = OnDataAccessError("get_gt")
          /\ err' = "DataAccessError"
          /\ UNCHANGED <<cslc_geotransform, done>>
    /\ UNCHANGED <<caller, apply_noise, apply_rad, product, heap, arr,
                   noise_arr, rad_arr, inputs, epsg_cslc>>
    /\ UNCHANGED saveVars

\* lines 127-128: noise_correction_arr = get_resampled_noise_correction(...)
GetResampledNoise ==
    /\ pc = "get_noise"
    /\ calls' = Append(calls, "get_resampled_noise_correction")
    /\ \/ \E n \in NoiseGrids(heap[arr]) :
            /\ heap' = Append(heap, n)
            /\ noise_arr' = Len(heap) + 1
            /\ inputs' = [inputs EXCEPT !.noise = n]
            /\ pc' = "subtract"
            /\ UNCHANGED err
       \/ /\ pc' = OnDataAccessError("get_noise")
          /\ err' = "DataAccessError"
          /\ UNCHANGED <<heap, noise_arr, inputs>>
    /\ UNCHANGED <<caller, apply_noise, apply_rad, product, arr, rad_arr,
                   cslc_geotransform, epsg_cslc, done>>
    /\ UNCHANGED saveVars

\* lines 131-132: cslc_amplitude_arr = cslc_amplitude_arr ** 2 - noise_correction_arr
\* The difference is a new array, to which the name is rebound.
SubtractStep ==
    /\ pc = "subtract"
    /\ heap' = Append(heap, SubtractNoise(heap[arr], heap[noise_arr]))
    /\ arr' = Len(heap) + 1
    /\ pc' = "clamp"
    /\ UNCHANGED <<caller, apply_noise, apply_rad, product, noise_arr, rad_arr,
                   inputs, cslc_geotransform, epsg_cslc, calls, done, err>>
    /\ UNCHANGED saveVars

\* line 133: cslc_amplitude_arr[cslc_amplitude_arr < 0.0] = 0.0
\* A masked assignment: it rewrites the array the name is bound to.
ClampStep ==
    /\ pc = "clamp"
    /\ heap' = [heap EXCEPT ![arr] = Clamp(heap[arr])]
    /\ pc' = "sqrt"
    /\ UNCHANGED <<caller, apply_noise, apply_rad, product, arr, noise_arr,
                   rad_arr, inputs, cslc_geotransform, epsg_cslc, calls, done,
                   err>>
    /\ UNCHANGED saveVars

\* line 134: cslc_amplitude_arr = np.sqrt(cslc_amplitude_arr)
\* np.sqrt returns a new array, to which the name is rebound.
SqrtStep ==
    /\ pc = "sqrt"
    /\ heap' = Append(heap, SqrtGrid(heap[arr]))
    /\ arr' = Len(heap) + 1
    /\ done' = done \cup {"noise"}
    /\ pc' = PcAfter("sqrt", apply_noise, apply_rad)
    /\ UNCHANGED <<caller, apply_noise, apply_rad, product, noise_arr, rad_arr,
                   inputs, cslc_geotransform, epsg_cslc, calls, err>>
    /\ UNCHANGED saveVars

\* lines 138-139: radiometric_normalization_arr =
\*     get_radiometric_normalization_correction(args.cslc_static_path)
GetRadiometric ==
    /\ pc = "get_rad"
    /\ calls' = Append(calls, "get_radiometric_normalization_correction")
    /\ \/ \E r \in RadiometricGrids :
            /\ heap' = Append(heap, r)
            /\ rad_arr' = Len(heap) + 1
            /\ inputs' = [inputs EXCEPT !.radiometric = r]
            /\ pc' = "multiply"
            /\ UNCHANGED err
       \/ /\ pc' = OnDataAccessError("get_rad")
          /\ err' = "DataAccessError"
          /\ UNCHANGED <<heap, rad_arr, inputs>>
    /\ UNCHANGED <<caller, apply_noise, apply_rad, product, arr, noise_arr,
                   cslc_geotransform, epsg_cslc, done>>
    /\ UNCHANGED saveVars

\* line 141: cslc_amplitude_arr *= radiometric_normalization_arr
\* An augmented assignment on an ndarray: numpy broadcasts the right operand
\* to the left one's shape and rewrites the left one in place; it raises
\* ValueError when the broadcast result does not fit the left operand.
MultiplyStep ==
    /\ pc = "multiply"
    /\ IF InPlaceOk(Shape(heap[arr]), Shape(heap[rad_arr]))
       THEN /\ heap' = [heap EXCEPT ![arr] = Multiply(heap[arr], heap[rad_arr])]
            /\ done' = done \cup {"radiometric"}
            /\ pc' = PcAfter("multiply", apply_noise, apply_rad)
            /\ UNCHANGED err
       ELSE /\ Raise("ValueError")
            /\ UNCHANGED <<heap, done>>
    /\ UNCHANGED <<caller, apply_noise, apply_rad, product, arr, noise_arr,
                   rad_arr, inputs, cslc_geotransform, epsg_cslc, calls>>
    /\ UNCHANGED saveVars

\* line 143: epsg_cslc = get_dataset_geotransform(args.cslc_path, cslc_dataset_path)
GetEpsg ==
    /\ pc = "get_epsg"
    /\ calls' = Append(calls, "get_dataset_geotransform")
    /\ \/ /\ epsg_cslc' = get_dataset_geotransform(product)
          /\ pc' = "call_save"
          /\ UNCHANGED err
       \/ /\ pc' = OnDataAccessError("get_epsg")
          /\ err' = "DataAccessError"
          /\ UNCHANGED epsg_cslc
    /\ UNCHANGED <<caller, apply_noise, apply_rad, product, heap, arr,
                   noise_arr, rad_arr, inputs, cslc_geotransform, done>>
    /\ UNCHANGED saveVars

\* lines 145-146: save_amplitude(cslc_amplitude_arr, cslc_geotransform,
\*                               epsg_cslc, args.out_path)
CallSaveAmplitude ==
    /\ pc = "call_save"
    /\ calls' = Append(calls, "save_amplitude")
    /\ saveArgs' = [grid |-> heap[arr], gt |-> cslc_geotransform,
                    epsg |-> epsg_cslc]
    /\ pc' = "sv_import"
    /\ UNCHANGED <<projection_out, importFailed, file, ds_out,
                   osgeo_exceptions>>
    /\ UNCHANGED <<caller, done, err>>
    /\ UNCHANGED mainVars

\* ---------------------------------------------------------- save_amplitude
\* The EPSG arguments a caller of save_amplitude other than main passes.
DirectEpsg == {4326, 32611, 999999}

\* save_amplitude is a public function of the module (main runs only under
\* __name__ == '__main__'): a call of it from an importing program.
DirectSaveAmplitude ==
    /\ pc = "idle"
    /\ \E g \in AmplitudeGrids, p \in Products, e \in DirectEpsg :
        saveArgs' = [grid |-> g, gt |-> PySeq(p.gt), epsg |-> PyInt(e)]
    /\ caller' = "direct"
    /\ calls' = Append(calls, "save_amplitude")
    /\ pc' = "sv_import"
    /\ UNCHANGED <<projection_out, importFailed, file, ds_out,
                   osgeo_exceptions, done, err>>
    /\ UNCHANGED mainVars

\* osr.SpatialReference.ImportFromEPSG(code): TRUE when the code resolves.
Resolves(e) == e.type = "int" /\ e.val[1] \in KnownEpsg

\* lines 41-43: srs_out.ImportFromEPSG(epsg_cslc); srs_out.ExportToWkt()
\*  - an argument that is not an int is refused by the binding (TypeError);
\*  - a code that does not resolve raises RuntimeError when the osgeo
\*    exceptions are enabled, and otherwise returns an error code, which
\*    line 42 drops: srs_out stays empty and ExportToWkt returns ''. The
\*    script enables or disables nothing (line 10 only imports gdal and
\*    osr), so which of the two happens is the default of the installed
\*    osgeo.
SvImport ==
    /\ pc = "sv_import"
    /\ \/ /\ saveArgs.epsg.type # "int"
          /\ Raise("TypeError")
          /\ importFailed' = TRUE
          /\ UNCHANGED projection_out
       \/ /\ Resolves(saveArgs.epsg)
          /\ projection_out' = Wkt(saveArgs.epsg.val[1])
          /\ pc' = "sv_create"
          /\ UNCHANGED <<importFailed, err>>
       \/ /\ saveArgs.epsg.type = "int"
          /\ ~Resolves(saveArgs.epsg)
          /\ importFailed' = TRUE
          /\ IF osgeo_exceptions
             THEN /\ Raise("RuntimeError")
                  /\ UNCHANGED projection_out
             ELSE /\ projection_out' = EmptyWkt
                  /\ pc' = "sv_create"
                  /\ UNCHANGED err
    /\ UNCHANGED <<saveArgs, file, ds_out, osgeo_exceptions, caller, calls,
                   done>>
    /\ UNCHANGED mainVars

\* gdal.Driver.Create: the dataset it creates, zero-filled, with the default
\* georeferencing.
CreateDataset(shape) ==
    [exists |-> TRUE, shape |-> shape, geotransform |-> DefaultGeotransform,
     projection |-> EmptyWkt,
     band |-> [i \in 1..shape[1] |-> [j \in 1..shape[2] |-> 0]],
     closed |-> FALSE]

\* lines 45-49: length_mosaic, width_mosaic = amplitude_arr.shape;
\* ds_out = driver.Create(amplitude_filename, width_mosaic, length_mosaic, ...)
\* Create can fail (unwritable destination) and then makes no file: with the
\* osgeo exceptions enabled it raises RuntimeError; with them disabled it
\* returns None, line 47 binds ds_out to None and the run goes on to line 51.
SvCreate ==
    /\ pc = "sv_create"
    /\ \/ /\ file' = CreateDataset(Shape(saveArgs.grid))
          /\ ds_out' = "dataset"
          /\ pc' = "sv_geotransform"
          /\ UNCHANGED err
       \/ /\ osgeo_exceptions
          /\ Raise("RuntimeError")
          /\ UNCHANGED <<file, ds_out>>
       \/ /\ ~osgeo_exceptions
          /\ ds_out' = "None"
          /\ pc' = "sv_geotransform"
          /\ UNCHANGED <<file, err>>
    /\ UNCHANGED <<saveArgs, projection_out, importFailed, osgeo_exceptions,
                   caller, calls, done>>
    /\ UNCHANGED mainVars

\* gdal.Dataset.SetGeoTransform(gt)
SetGeoTransform(ds, gt) == [ds EXCEPT !.geotransform = gt]

\* line 51: ds_out.SetGeoTransform(geotransform_cslc)
\* When Create returned None the attribute lookup raises AttributeError.
SvSetGeoTransform ==
    /\ pc = "sv_geotransform"
    /\ IF ds_out = "None"
       THEN /\ Raise("AttributeError")
            /\ UNCHANGED file
       ELSE IF saveArgs.gt.type = "sequence" /\ Len(saveArgs.gt.val) = 6
       THEN /\ file' = SetGeoTransform(file, saveArgs.gt.val)
            /\ pc' = "sv_projection"
            /\ UNCHANGED err
       ELSE /\ Raise("TypeError")
            /\ UNCHANGED file
    /\ UNCHANGED <<saveArgs, projection_out, importFailed, ds_out,
                   osgeo_exceptions, caller, calls, done>>
    /\ UNCHANGED mainVars

\* line 52: ds_out.SetProjection(projection_out)
SvSetProjection ==
    /\ pc = "sv_projection"
    /\ file' = [file EXCEPT !.projection = projection_out]
    /\ pc' = "sv_write"
    /\ UNCHANGED <<saveArgs, projection_out, importFailed, ds_out,
                   osgeo_exceptions, caller, calls, done, err>>
    /\ UNCHANGED mainVars

\* line 54: ds_out.GetRasterBand(1).WriteArray(amplitude_arr)
SvWriteArray ==
    /\ pc = "sv_write"
    /\ file' = [file EXCEPT !.band = saveArgs.grid]
    /\ pc' = "sv_close"
    /\ UNCHANGED <<saveArgs, projection_out, importFailed, ds_out,
                   osgeo_exceptions, caller, calls, done, err>>
    /\ UNCHANGED mainVars

\* line 56: ds_out = None (the dataset is flushed and closed)
SvClose ==
    /\ pc = "sv_close"
    /\ file' = [file EXCEPT !.closed = TRUE]
    /\ pc' = "done"
    /\ ds_out' = "None"
    /\ UNCHANGED <<saveArgs, projection_out, importFailed, osgeo_exceptions,
                   caller, calls, done, err>>
    /\ UNCHANGED mainVars

Next ==
    \/ ParseArgs
    \/ GetCslcAmplitude
    \/ GetGeotransform
    \/ GetResampledNoise
    \/ SubtractStep
    \/ ClampStep
    \/ SqrtStep
    \/ GetRadiometric
    \/ MultiplyStep
    \/ GetEpsg
    \/ CallSaveAmplitude
    \/ DirectSaveAmplitude
    \/ SvImport
    \/ SvCreate
    \/ SvSetGeoTransform
    \/ SvSetProjection
    \/ SvWriteArray
    \/ SvClose

Spec == Init /\ [][Next]_vars

\* ------------------------------------------------------------ properties
\* The amplitude reader's array is the first object allocated.
AmpObj == 1

\* main has called save_amplitude.
MainSaved == caller = "main" /\ saveArgs # NoArgs

\* The grid main handed to save_amplitude.
Out == saveArgs.grid

\* The non-negative root of a perfect square.
Root(x) == CHOOSE r \in 0..x : r * r = x

\* The power left after the noise is taken from the amplitude at cell c,
\* floored at zero.
Floored(c) ==
    Max(inputs.amplitude[c[1]][c[2]] * inputs.amplitude[c[1]][c[2]]
            - inputs.noise[c[1]][c[2]], 0)

Count(seq, x) == Cardinality({k \in 1..Len(seq) : seq[k] = x})

\* C1: with the noise correction on and the radiometric normalization off,
\* every pixel of the grid handed to save_amplitude is the non-negative square
\* root of max(A^2 - N, 0); it is 0 wherever N > A^2.
C1_NoiseOnly ==
    (MainSaved /\ apply_noise /\ ~apply_rad) =>
        /\ Shape(Out) = Shape(inputs.amplitude)
        /\ \A c \in Cells(inputs.amplitude) :
            /\ Out[c[1]][c[2]] >= 0
            /\ Out[c[1]][c[2]] * Out[c[1]][c[2]] = Floored(c)
            /\ (inputs.noise[c[1]][c[2]] >
                    inputs.amplitude[c[1]][c[2]] * inputs.amplitude[c[1]][c[2]])
                => Out[c[1]][c[2]] = 0

\* C1 witness: a noise-only run handed over a grid with one pixel floored at
\* zero (noise above the power) and one pixel that kept a positive amplitude.
C1_Witness ==
    /\ MainSaved /\ apply_noise /\ ~apply_rad
    /\ \E c \in Cells(inputs.amplitude), d \in Cells(inputs.amplitude) :
        /\ inputs.noise[c[1]][c[2]] >
                inputs.amplitude[c[1]][c[2]] * inputs.amplitude[c[1]][c[2]]
        /\ inputs.amplitude[c[1]][c[2]] > 0
        /\ Out[c[1]][c[2]] = 0
        /\ inputs.noise[d[1]][d[2]] > 0
        /\ Out[d[1]][d[2]] > 0

\* C2: with both corrections on and a radiometric grid of the amplitude's
\* shape, every pixel handed to save_amplitude is
\* sqrt(max(A^2 - N, 0)) * R: the noise correction, floor included, comes
\* before the multiply.
C2_NoiseThenRadiometric ==
    (MainSaved /\ apply_noise /\ apply_rad
        /\ Shape(inputs.radiometric) = Shape(inputs.amplitude)) =>
        /\ Shape(Out) = Shape(inputs.amplitude)
        /\ \A c \in Cells(inputs.amplitude) :
            Out[c[1]][c[2]] = Root(Floored(c)) * inputs.radiometric[c[1]][c[2]]

\* C2 witness: both corrections ran on a pixel with A = 2, N = 3, R = 2, for
\* which the order matters (sqrt(4 - 3) * 2 = 2, while the multiply first
\* would give sqrt(16 - 3)), next to a pixel floored at zero before the gain.
C2_Witness ==
    /\ MainSaved /\ apply_noise /\ apply_rad
    /\ Shape(inputs.radiometric) = Shape(inputs.amplitude)
    /\ \E c \in Cells(inputs.amplitude), d \in Cells(inputs.amplitude) :
        /\ inputs.amplitude[c[1]][c[2]] = 2
        /\ inputs.noise[c[1]][c[2]] = 3
        /\ inputs.radiometric[c[1]][c[2]] = 2
        /\ Out[c[1]][c[2]] = 2
        /\ inputs.amplitude[d[1]][d[2]] = 1
        /\ inputs.noise[d[1]][d[2]] = 2
        /\ inputs.radiometric[d[1]][d[2]] = 2
        /\ Out[d[1]][d[2]] = 0

\* C3: with both corrections off, main ends without a call to a collaborator,
\* without an array, without a call to save_amplitude and without a file.
C3_BothOffNoWork ==
    (caller = "main" /\ ~apply_noise /\ ~apply_rad) =>
        /\ pc = "done"
        /\ calls = <<>>
        /\ heap = <<>>
        /\ done = {}
        /\ saveArgs = NoArgs
        /\ ~file.exists
        /\ err = "none"

\* C3 witness: a run of main with both flags off has returned.
C3_Witness ==
    caller = "main" /\ ~apply_noise /\ ~apply_rad /\ pc = "done"

\* C4 (as claimed): a radiometric grid whose shape differs from the
\* amplitude's makes the correction raise: the multiply never completes and
\* save_amplitude is never called.
C4_ShapeMismatchRaises ==
    (caller = "main" /\ rad_arr # 0
        /\ Shape(inputs.radiometric) # Shape(inputs.amplitude)) =>
        /\ "radiometric" \notin done
        /\ saveArgs = NoArgs
        /\ pc \in {"multiply", "failed"}

\* save_amplitude ended because driver.Create made no dataset.
CreateFailed ==
    /\ pc = "failed"
    /\ ~file.exists
    /\ \/ err = "AttributeError"
       \/ err = "RuntimeError" /\ ~importFailed

C6_EpsgIsSourceCode ==
    MainSaved =>
        /\ saveArgs.epsg = PyInt(product.epsg)
        /\ Count(calls, "get_dataset_geotransform") = 1

\* C7 (as claimed): no state has a failed EPSG import and a created file.
C7_InvalidEpsgNoFile ==
    importFailed => (~file.exists /\ pc = "failed")

\* C8 (as claimed): the arrays the readers returned hold the values they were
\* returned with, and once a correction has completed the result is another
\* array than the readers' ones.
C8_InputsNotMutated ==
    /\ inputs.amplitude # NoGrid => heap[AmpObj] = inputs.amplitude
    /\ noise_arr # 0 => heap[noise_arr] = inputs.noise
    /\ rad_arr # 0 => heap[rad_arr] = inputs.radiometric
    /\ (done \cap {"noise", "radiometric"} # {})
            => arr \notin {AmpObj, noise_arr, rad_arr}

\* C9 (as claimed): with a correction on and grids of matching shape, no
\* pixel handed to save_amplitude is negative, whatever the radiometric grid.
C9_NonNegativeAnyGain ==
    (MainSaved /\ (apply_rad =>
                     Shape(inputs.radiometric) = Shape(inputs.amplitude))) =>
        \A c \in Cells(Out) : Out[c[1]][c[2]] >= 0

\* C9 (amended): with a correction on, grids of matching shape and no
\* negative radiometric factor, no pixel handed to save_amplitude is negative.
C9_NonNegative ==
    (MainSaved
        /\ (apply_rad =>
              /\ Shape(inputs.radiometric) = Shape(inputs.amplitude)
              /\ \A c \in Cells(inputs.radiometric) :
                    inputs.radiometric[c[1]][c[2]] >= 0)) =>
        \A c \in Cells(Out) : Out[c[1]][c[2]] >= 0

\* C9 witness: a run with the radiometric normalization on and no negative
\* factor handed over a grid with a zero pixel and a positive pixel, the
\* amplitude being below the gain at some pixel.
C9_Witness ==
    /\ MainSaved /\ apply_rad
    /\ Shape(inputs.radiometric) = Shape(inputs.amplitude)
    /\ \A c \in Cells(inputs.radiometric) : inputs.radiometric[c[1]][c[2]] >= 0
    /\ \E c \in Cells(Out), d \in Cells(Out) :
        /\ Out[c[1]][c[2]] = 0
        /\ Out[d[1]][d[2]] > 0
        /\ inputs.amplitude[d[1]][d[2]] < inputs.radiometric[d[1]][d[2]]

\* C10: save_amplitude is called at most once; main calls it only after the
\* amplitude read, the geotransform read and every enabled correction have
\* completed; a failed data-access call ends the run with save_amplitude
\* never called and no file.
C10_SaveLastAndOnce ==
    /\ Count(calls, "save_amplitude") <= 1
    /\ MainSaved =>
        /\ {"amplitude", "geotransform"} \subseteq done
        /\ apply_noise => "noise" \in done
        /\ apply_rad => "radiometric" \in done
        /\ calls[Len(calls)] = "save_amplitude"
        /\ Count(calls, "get_dataset_geotransform") >= 1
    /\ err = "DataAccessError" =>
        /\ pc = "failed"
        /\ saveArgs = NoArgs
        /\ ~file.exists

\* C10 witness: main called save_amplitude after both corrections completed.
C10_Witness ==
    /\ MainSaved
    /\ done = {"amplitude", "geotransform", "noise", "radiometric"}
    /\ Count(calls, "save_amplitude") = 1

====
